---------------------------- MODULE Spec2Model ----------------------------
(***************************************************************************)
(* Model of the weekly MRIQC reporting scripts:                            *)
(*   runmriqc_group_local.py  - aggregation of IQM JSONs into dated        *)
(*                              snapshots and canonical ledgers            *)
(*   bids_qc_report.py        - cohort classification, evidence            *)
(*                              extraction and MRIQC status                *)
(*                                                                         *)
(* Text is modelled as a sequence of tokens.  A decimal digit is one       *)
(* token ("0".."9"); the literal pieces the regular expressions and globs  *)
(* of the scripts look for ("sub-", "_T1w.json", ...) are one token each.  *)
(***************************************************************************)
EXTENDS Integers, Sequences, FiniteSets, TLC

(***************************************************************************)
(* Bounds of the model                                                     *)
(***************************************************************************)
MaxVersion == 2      \* how often the QC tool may (re)compute one IQM JSON
MaxRuns == 3         \* how many aggregator runs one behaviour contains
MaxQC == 3           \* how many QC tool invocations one behaviour contains
MaxMetric == 2       \* the largest metric value a drawn IQM JSON holds
MaxFiles == 2        \* how many files the acquisition adds below one subject root
MaxRows == 2         \* how many rows a presence CSV of the work selection holds

(***************************************************************************)
(* Text helpers                                                            *)
(***************************************************************************)
Digits == {"0", "1", "2", "3", "4", "5", "6", "7", "8", "9"}

IsDigit(c) == c \in Digits

DigitVal(c) ==
  CASE c = "0" -> 0 [] c = "1" -> 1 [] c = "2" -> 2 [] c = "3" -> 3
    [] c = "4" -> 4 [] c = "5" -> 5 [] c = "6" -> 6 [] c = "7" -> 7
    [] c = "8" -> 8 [] c = "9" -> 9

DigitChar(n) ==
  CASE n = 0 -> "0" [] n = 1 -> "1" [] n = 2 -> "2" [] n = 3 -> "3"
    [] n = 4 -> "4" [] n = 5 -> "5" [] n = 6 -> "6" [] n = 7 -> "7"
    [] n = 8 -> "8" [] n = 9 -> "9"

AllDigits(s) == \A i \in 1..Len(s) : IsDigit(s[i])

Front(s) == SubSeq(s, 1, Len(s) - 1)

Last(s) == s[Len(s)]

\* code-point order of the tokens, used where Python compares strings
TokRank(c) ==
  CASE IsDigit(c) -> DigitVal(c)
    [] c = "_T1w.json" -> 10
    [] c = "_task-rest_bold.json" -> 11
    [] c = "_task-ta_bold.json" -> 12
    [] OTHER -> 13

RECURSIVE TextLess(_, _)
TextLess(a, b) ==
  IF a = <<>> THEN b # <<>>
  ELSE IF b = <<>> THEN FALSE
  ELSE IF a[1] = b[1] THEN TextLess(Tail(a), Tail(b))
  ELSE TokRank(a[1]) < TokRank(b[1])

\* int(text) of a non-empty run of digits, as the CSV reader computes it
RECURSIVE ParseInt(_)
ParseInt(s) ==
  IF s = <<>> THEN 0 ELSE 10 * ParseInt(Front(s)) + DigitVal(Last(s))

\* str(n) of a non-negative integer, as the CSV writer formats it
RECURSIVE IntToText(_)
IntToText(n) ==
  IF n < 10 THEN <<DigitChar(n)>>
  ELSE Append(IntToText(n \div 10), DigitChar(n % 10))


(***************************************************************************)
(* runmriqc_group_local.py : subject labels                                *)
(***************************************************************************)

\* re.fullmatch(r"\d{4}", lab)
FullMatchBaseline(lab) == Len(lab) = 4 /\ AllDigits(lab)

\* re.fullmatch(r"\d{4}1", lab)
FullMatchScan2(lab) ==
  Len(lab) = 5 /\ AllDigits(SubSeq(lab, 1, 4)) /\ lab[5] = "1"

\* BASELINE_DIR_RE = ^sub-(\d{4})$ applied with .match to a directory name
BASELINE_DIR_RE(name) ==
  Len(name) = 5 /\ name[1] = "sub-" /\ AllDigits(Tail(name))

\* SCAN2_DIR_RE = ^sub-(\d{4}1)$ applied with .match to a directory name
SCAN2_DIR_RE(name) ==
  Len(name) = 6 /\ name[1] = "sub-" /\ FullMatchScan2(Tail(name))

\* the longest run of digits at the front of s (the greedy \d+)
RECURSIVE DigitRun(_)
DigitRun(s) ==
  IF s = <<>> \/ ~IsDigit(s[1]) THEN <<>> ELSE <<s[1]>> \o DigitRun(Tail(s))

\* re.search(r"sub-(\d+)", name): group(1) of the leftmost match, <<>> if none
RECURSIVE SearchSubDigits(_)
SearchSubDigits(name) ==
  IF Len(name) < 2 THEN <<>>
  ELSE IF name[1] = "sub-" /\ IsDigit(name[2]) THEN DigitRun(Tail(name))
  ELSE SearchSubDigits(Tail(name))

\* Optional[list[str]]: NoneL is Python's None, Some(v) a list
NoneL == [some |-> FALSE, v |-> <<>>]

Some(v) == [some |-> TRUE, v |-> v]

\* the loop of parse_subject_labels: skip empty labels, drop a leading "sub-"
RECURSIVE StripLabels(_)
StripLabels(raw) ==
  IF raw = <<>> THEN <<>>
  ELSE LET s == raw[1]
           t == IF s # <<>> /\ s[1] = "sub-" THEN Tail(s) ELSE s
       IN  IF s = <<>> THEN StripLabels(Tail(raw))
           ELSE <<t>> \o StripLabels(Tail(raw))

parse_subject_labels(raw) ==
  IF ~raw.some THEN NoneL
  ELSE IF StripLabels(raw.v) = <<>> THEN NoneL ELSE Some(StripLabels(raw.v))

\* one label of split_baseline_scan2
ClassifyLabel(lab) ==
  IF FullMatchBaseline(lab) THEN "BASELINE"
  ELSE IF FullMatchScan2(lab) THEN "SCAN2"
  ELSE "REJECTED"

\* split_baseline_scan2 raises ValueError when a label is in neither cohort
SplitRaises(labels) ==
  labels.some /\ \E i \in 1..Len(labels.v) : ClassifyLabel(labels.v[i]) = "REJECTED"

\* the labels split_baseline_scan2 returns for one cohort (x or None)
split_baseline_scan2(labels, cohort) ==
  IF ~labels.some THEN NoneL
  ELSE LET want == IF cohort = "baseline" THEN "BASELINE" ELSE "SCAN2"
           sel == SelectSeq(labels.v, LAMBDA l : ClassifyLabel(l) = want)
       IN  IF sel = <<>> THEN NoneL ELSE Some(sel)

(***************************************************************************)
(* The MRIQC derivatives tree                                              *)
(***************************************************************************)
Sub(d) == <<"sub-">> \o d

T1wJson(d) == [dir |-> Sub(d), sub |-> "anat", name |-> Sub(d) \o <<"_T1w.json">>]

BoldJson(d) ==
  [dir |-> Sub(d), sub |-> "func", name |-> Sub(d) \o <<"_task-rest_bold.json">>]

\* the IQM JSONs the QC tool can produce in this model: three baseline
\* subjects (one with a leading zero), one follow-up subject and one
\* directory that belongs to neither cohort
DerivFiles ==
  { T1wJson(<<"1", "0", "0", "1">>),
    T1wJson(<<"1", "0", "0", "2">>),
    T1wJson(<<"0", "1", "2", "3">>),
    T1wJson(<<"1", "0", "0", "1", "1">>),
    T1wJson(<<"1", "0", "0", "1", "2">>),
    BoldJson(<<"1", "0", "0", "1">>) }

Cohorts == {"baseline", "scan2"}

Modalities == {"T1w", "bold"}

Tables == Cohorts \X Modalities

\* glob("sub-*/anat/sub-*_T1w.json") or glob("sub-*/func/sub-*_bold.json")
GlobMatches(f, modality) ==
  /\ f.dir # <<>> /\ f.dir[1] = "sub-"
  /\ f.name # <<>> /\ f.name[1] = "sub-"
  /\ IF modality = "T1w"
       THEN f.sub = "anat" /\ Last(f.name) = "_T1w.json"
       ELSE f.sub = "func" /\ Last(f.name) \in {"_task-rest_bold.json", "_task-ta_bold.json"}

(***************************************************************************)
(* bids_qc_report.py : cohorts, evidence extraction, MRIQC status          *)
(***************************************************************************)

\* sub-\d{4} without the end anchor
regex_baseline_unanchored(name) ==
  Len(name) >= 5 /\ name[1] = "sub-" /\ AllDigits(SubSeq(name, 2, 5))

\* regex_baseline = sub-\d{4}$ applied with .match
regex_baseline(name) ==
  Len(name) = 5 /\ name[1] = "sub-" /\ AllDigits(SubSeq(name, 2, 5))

\* regex_scan2 = sub-\d{4}1$ applied with .match
regex_scan2(name) ==
  Len(name) = 6 /\ name[1] = "sub-" /\ AllDigits(SubSeq(name, 2, 5)) /\ name[6] = "1"

\* the groups main puts a subject directory into
SubjectGroups(name) ==
  (IF name # <<>> /\ name[1] = "sub-" /\ regex_baseline(name) THEN {"baseline"} ELSE {}) \cup
  (IF name # <<>> /\ name[1] = "sub-" /\ regex_scan2(name) THEN {"scan2"} ELSE {})

\* re.match(r"(sub-\d{4})", bids_name): the suffix digit is cut off
extract_sub_prefix_truncating(name) ==
  IF Len(name) >= 5 /\ name[1] = "sub-" /\ AllDigits(SubSeq(name, 2, 5))
    THEN SubSeq(name, 1, 5)
    ELSE <<>>

\* extract_sub_prefix: re.match(r"(sub-\d{4}1?)", bids_name), <<>> for None
extract_sub_prefix(name) ==
  IF Len(name) >= 5 /\ name[1] = "sub-" /\ AllDigits(SubSeq(name, 2, 5))
    THEN IF Len(name) >= 6 /\ name[6] = "1" THEN SubSeq(name, 1, 6) ELSE SubSeq(name, 1, 5)
    ELSE <<>>

\* load_mriqc_tsv_subjects for one table: the prefixes of its bids_name column
TsvSubjects(names) ==
  {extract_sub_prefix(n) : n \in {m \in names : extract_sub_prefix(m) # <<>>}}

\* re.match(r"(sub-\d{4})", name): the optional trailing 1 is not captured
HtmlSubId_truncating(name) ==
  IF Len(name) >= 5 /\ name[1] = "sub-" /\ AllDigits(SubSeq(name, 2, 5))
    THEN SubSeq(name, 1, 5)
    ELSE <<>>

\* re.match(r"(sub-\d{4}1?)", name) of build_mriqc_html_index, <<>> for None
HtmlSubId(name) ==
  IF Len(name) >= 5 /\ name[1] = "sub-" /\ AllDigits(SubSeq(name, 2, 5))
    THEN IF Len(name) >= 6 /\ name[6] = "1" THEN SubSeq(name, 1, 6) ELSE SubSeq(name, 1, 5)
    ELSE <<>>

\* "T1w.html" in name
HasT1wHtml(name) == \E i \in 1..Len(name) : name[i] = "_T1w.html"

\* "bold.html" in name
HasBoldHtml(name) ==
  \E i \in 1..Len(name) : name[i] \in {"_bold.html", "_task-rest_bold.html"}

\* the index after the loop of build_mriqc_html_index has handled the
\* entries files
IndexOfEntries(files) ==
  LET ids == {HtmlSubId(n) : n \in {m \in files : HtmlSubId(m) # <<>>}}
  IN  [id \in ids |->
         <<\E n \in files : HtmlSubId(n) = id /\ HasT1wHtml(n),
           \E n \in files : HtmlSubId(n) = id /\ HasBoldHtml(n)>>]

\* how os.scandir and the iteration over it can end: normally, or with an
\* exception after the entries seen have been handled
ListingOk == [outcome |-> "ok", seen |-> {}]

ListingFailures(files) ==
  {[outcome |-> "FileNotFoundError", seen |-> {}], [outcome |-> "TimeoutError", seen |-> {}]}
    \cup {[outcome |-> "OSError", seen |-> S] : S \in SUBSET files}

\* the exception classes the two except clauses catch
IsOSError(exc) == exc \in {"OSError", "TimeoutError", "FileNotFoundError"}

\* a listing that fails part-way returns the entries indexed so far
build_mriqc_html_index_partial(files, listing) ==
  IF IsOSError(listing.outcome) THEN IndexOfEntries(listing.seen) ELSE IndexOfEntries(files)

\* build_mriqc_html_index: the index of the files of the report directory,
\* or the empty index when the listing raised
build_mriqc_html_index(files, listing) ==
  IF IsOSError(listing.outcome) THEN IndexOfEntries({}) ELSE IndexOfEntries(files)

\* html_index.get(sub_id, (False, False))
IndexGet(index, sub_id) ==
  IF sub_id \in DOMAIN index THEN index[sub_id] ELSE <<FALSE, FALSE>>

\* the status from the tabular evidence alone
evaluate_mriqc_status_tsv_only(sub_id, boldSet, t1Set, index) ==
  LET has_t1 == sub_id \in t1Set
      has_bold == sub_id \in boldSet
  IN  IF has_t1 /\ has_bold THEN "1"
      ELSE IF has_t1 /\ ~has_bold THEN "no_bold"
      ELSE IF has_bold /\ ~has_t1 THEN "no_t1"
      ELSE "0"

\* evaluate_mriqc_status; the codes 1 and 0 are written "1" and "0"
evaluate_mriqc_status(sub_id, boldSet, t1Set, index) ==
  LET in_tsv_t1 == sub_id \in t1Set
      in_tsv_bold == sub_id \in boldSet
      html_t1 == IndexGet(index, sub_id)[1]
      html_bold == IndexGet(index, sub_id)[2]
      has_t1 == in_tsv_t1 \/ html_t1
      has_bold == in_tsv_bold \/ html_bold
  IN  IF has_t1 /\ has_bold THEN "1"
      ELSE IF has_t1 /\ ~has_bold THEN "no_bold"
      ELSE IF has_bold /\ ~has_t1 THEN "no_t1"
      ELSE "0"

(***************************************************************************)
(* bids_qc_report.py : scan presence.  A file of a subject's tree is the   *)
(* directory it lies in below the subject root and its name, a sequence of *)
(* tokens: sub-, the digits, the entities, the suffix and the extension.   *)
(***************************************************************************)
PatternKeys == {"hippocampus", "dwi", "resting_state", "think_aloud", "minds_eye"}

\* the columns of a row of the presence table
RowKeys == {"ID", "MRIQC"} \cup PatternKeys

\* the tokens that contain the literal a pattern begins with
Marked(lit) ==
  IF lit = "acq-hippo" THEN {"_acq-hippo"}
  ELSE IF lit = "task-rest" THEN {"_task-rest"}
  ELSE IF lit = "task-ta" THEN {"_task-ta", "_task-tapping"}
  ELSE IF lit = "task-me" THEN {"_task-me"}
  ELSE {}

\* <lit>.*<suffix>\.nii\.gz$ under regex.search
SearchPattern(lit, suffix, name) ==
  /\ Len(name) >= 3
  /\ name[Len(name) - 1] = suffix /\ name[Len(name)] = ".nii.gz"
  /\ \E i \in 1..(Len(name) - 2) : name[i] \in Marked(lit)

\* patterns[key].search(f)
patterns(key, name) ==
  IF key = "hippocampus" THEN SearchPattern("acq-hippo", "_T2w", name)
  ELSE IF key = "dwi"
    THEN Len(name) >= 2 /\ name[Len(name) - 1] = "_dwi" /\ name[Len(name)] = ".nii.gz"
  ELSE IF key = "resting_state" THEN SearchPattern("task-rest", "_bold", name)
  ELSE IF key = "think_aloud" THEN SearchPattern("task-ta", "_bold", name)
  ELSE SearchPattern("task-me", "_bold", name)

\* a subject root that does not exist
NoRoot == [exists |-> FALSE, files |-> {}]

RootOf(files) == [exists |-> TRUE, files |-> files]

Present(b) == IF b THEN 1 ELSE 0

\* os.listdir(sub_path) in place of os.walk(sub_path): the files of the
\* subdirectories are not seen
check_subject_top_level(root, sub_id, boldSet, t1Set, index) ==
  [raised |-> FALSE,
   row |-> [key \in RowKeys |->
              IF key = "ID" THEN sub_id
              ELSE IF key = "MRIQC" THEN evaluate_mriqc_status(sub_id, boldSet, t1Set, index)
              ELSE Present(\E f \in root.files : f.dir = "." /\ patterns(key, f.name))]]

\* check_subject: os.walk yields nothing for a root that does not exist
\* and raises nothing, so the row is always returned
check_subject(root, sub_id, boldSet, t1Set, index) ==
  [raised |-> FALSE,
   row |-> [key \in RowKeys |->
              IF key = "ID" THEN sub_id
              ELSE IF key = "MRIQC" THEN evaluate_mriqc_status(sub_id, boldSet, t1Set, index)
              ELSE Present(\E f \in root.files : patterns(key, f.name))]]

\* the files an acquisition can put below the root of subject sub
BidsFile(dir, sub, rest) == [dir |-> dir, name |-> sub \o rest]

HippoFile(sub) == BidsFile("anat", sub, <<"_acq-hippo", "_T2w", ".nii.gz">>)

DwiFile(sub) == BidsFile("dwi", sub, <<"_dwi", ".nii.gz">>)

RestFile(sub) == BidsFile("func", sub, <<"_task-rest", "_bold", ".nii.gz">>)

TaFile(sub) == BidsFile("func", sub, <<"_task-ta", "_bold", ".nii.gz">>)

MeFile(sub) == BidsFile("func", sub, <<"_task-me", "_run-1", "_bold", ".nii.gz">>)

ScanFiles(sub) ==
  { HippoFile(sub), DwiFile(sub), RestFile(sub), TaFile(sub), MeFile(sub),
    BidsFile("anat", sub, <<"_acq-hippo", "_T2w", ".json">>),
    BidsFile("anat", sub, <<"_T1w", ".nii.gz">>),
    BidsFile("anat", sub, <<"_T2w", ".nii.gz">>),
    BidsFile("dwi", sub, <<"_dwi", ".bval">>),
    BidsFile("func", sub, <<"_task-rest", "_sbref", ".nii.gz">>),
    BidsFile("func", sub, <<"_task-tapping", "_bold", ".nii.gz">>),
    BidsFile("func", sub, <<"_task-me", "_task-rest", "_bold", ".nii.gz">>),
    BidsFile(".", sub, <<"_dwi", ".nii.gz">>) }

(***************************************************************************)
(* Data frames.  A cell of the participant_id column is a Python str or a  *)
(* Python int; a frame is a sequence of rows; a TSV file is a sequence of  *)
(* rows of text.                                                           *)
(***************************************************************************)
StrCell(t) == [k |-> "str", n |-> 0, s |-> t]

IntCell(i) == [k |-> "int", n |-> i, s |-> <<>>]

\* order of two participant_id cells in a two-column sort_values: the
\* factorisation behind it puts numbers before strings
CellLess(a, b) ==
  IF a.k = "int" /\ b.k = "int" THEN a.n < b.n
  ELSE IF a.k = "str" /\ b.k = "str" THEN TextLess(a.s, b.s)
  ELSE a.k = "int"

SameKey(r, q) == r.pid = q.pid /\ r.file = q.file

KeyLess(r, q) ==
  CellLess(r.pid, q.pid) \/ (r.pid = q.pid /\ TextLess(r.file, q.file))

\* stable insertion of r behind every row that is not greater than it
RECURSIVE InsertRow(_, _)
InsertRow(r, sorted) ==
  IF sorted = <<>> THEN <<r>>
  ELSE IF KeyLess(r, Last(sorted)) THEN Append(InsertRow(r, Front(sorted)), Last(sorted))
  ELSE Append(sorted, r)

\* df.sort_values(["participant_id", "file_name"]).reset_index(drop=True)
RECURSIVE SortValues(_)
SortValues(df) ==
  IF df = <<>> THEN <<>> ELSE InsertRow(Last(df), SortValues(Front(df)))

\* df.drop_duplicates(subset=key_cols, keep="last")
RECURSIVE DropDuplicatesLast(_)
DropDuplicatesLast(df) ==
  IF df = <<>> THEN <<>>
  ELSE IF \E j \in 2..Len(df) : SameKey(df[j], df[1]) THEN DropDuplicatesLast(Tail(df))
  ELSE <<df[1]>> \o DropDuplicatesLast(Tail(df))

\* df.to_csv(path, sep="\t", index=False): every cell becomes text
CellToText(c) == IF c.k = "int" THEN IntToText(c.n) ELSE c.s

\* a flag cell as text: True, False, or nothing for a missing cell
FlagToText(b) == IF b = "T" THEN "True" ELSE IF b = "F" THEN "False" ELSE ""

TextToFlag(t) == IF t = "True" THEN "T" ELSE IF t = "False" THEN "F" ELSE "none"

\* a text cell: a missing cell is written as nothing
MarkToText(m) == IF m = "none" THEN "" ELSE m

TextToMark(t) == IF t = "" THEN "none" ELSE t

ToCsv(df) ==
  [i \in 1..Len(df) |->
     [pid |-> CellToText(df[i].pid), file |-> df[i].file, val |-> df[i].val,
      outlier |-> FlagToText(df[i].outlier), err |-> MarkToText(df[i].err)]]

\* pd.read_csv(path, sep="\t"): a column whose every cell parses as an
\* integer comes back as int64, any other column as str
ReadCsv(rows) ==
  LET numeric == \A i \in 1..Len(rows) : rows[i].pid # <<>> /\ AllDigits(rows[i].pid)
  IN  [i \in 1..Len(rows) |->
         [pid |-> IF numeric THEN IntCell(ParseInt(rows[i].pid)) ELSE StrCell(rows[i].pid),
          file |-> rows[i].file, val |-> rows[i].val,
          outlier |-> TextToFlag(rows[i].outlier), err |-> TextToMark(rows[i].err)]]

\* a file on disk: absent, or the rows it holds
NoFile == [exists |-> FALSE, rows |-> <<>>]

FileOf(rows) == [exists |-> TRUE, rows |-> rows]

(***************************************************************************)
(* runmriqc_group_local.py : aggregation                                   *)
(***************************************************************************)
PathLess(f, g) ==
  TextLess(f.dir, g.dir) \/ (f.dir = g.dir /\ TextLess(f.name, g.name))

\* sorted(paths)
RECURSIVE SortedPaths(_)
SortedPaths(S) ==
  IF S = {} THEN <<>>
  ELSE LET m == CHOOSE x \in S : \A y \in S \ {x} : PathLess(x, y)
       IN  <<m>> \o SortedPaths(S \ {m})

\* a file of the derivatives tree that exists but that json.load cannot read
Malformed == -1

\* a missing cell of the metric column
NaN == -1

\* find_iqm_jsons: tree maps every file of the derivatives to its content:
\* 0 = absent, Malformed, or the metric value of a readable document
find_iqm_jsons(tree, modality, labels) ==
  LET candidates == {f \in DOMAIN tree : tree[f] # 0 /\ GlobMatches(f, modality)}
      want == {labels.v[i] : i \in 1..Len(labels.v)}
      kept == {f \in candidates :
                 SearchSubDigits(f.name) # <<>> /\ SearchSubDigits(f.name) \in want}
  IN  IF ~labels.some THEN SortedPaths(candidates)
      ELSE IF labels.v = <<>> THEN <<>>
      ELSE SortedPaths(kept)

\* _safe_read_json and _flatten: the metric of a readable document, or the
\* __read_error__ marker and no metric
safe_read_json(doc) ==
  IF doc = Malformed THEN [val |-> NaN, err |-> "JSONDecodeError"]
  ELSE [val |-> doc, err |-> "none"]

\* aggregate_iqms: one row per JSON, sorted by participant_id and file_name
aggregate_iqms(tree, modality, labels) ==
  LET paths == find_iqm_jsons(tree, modality, labels)
      rows == [i \in 1..Len(paths) |->
                 [pid |-> StrCell(SearchSubDigits(paths[i].name)),
                  file |-> paths[i].name, val |-> safe_read_json(tree[paths[i]]).val,
                  outlier |-> "none", err |-> safe_read_json(tree[paths[i]]).err]]
  IN  SortValues(rows)

(***************************************************************************)
(* runmriqc_group_local.py : outlier flags, upsert, write_one, main        *)
(***************************************************************************)
ZThresh == 3

MinNonMissing == 5

\* s.notna().sum()
RECURSIVE NotNaCount(_)
NotNaCount(df) ==
  IF df = <<>> THEN 0 ELSE (IF df[1].val = NaN THEN 0 ELSE 1) + NotNaCount(Tail(df))

\* the sum of the metric column, missing cells skipped
RECURSIVE SumVal(_)
SumVal(df) ==
  IF df = <<>> THEN 0 ELSE (IF df[1].val = NaN THEN 0 ELSE df[1].val) + SumVal(Tail(df))

\* the sum of its squares, missing cells skipped
RECURSIVE SumSq(_)
SumSq(df) ==
  IF df = <<>> THEN 0
  ELSE (IF df[1].val = NaN THEN 0 ELSE df[1].val * df[1].val) + SumSq(Tail(df))

\* add_outlier_flags without the test for five non-missing values
add_outlier_flags_unguarded(df, z) ==
  LET n == NotNaCount(df)
      S == SumVal(df)
      Q == SumSq(df)
      flag(x) == x # NaN /\ (n * x - S) * (n * x - S) * (n - 1) >= z * z * n * (n * Q - S * S)
  IN  IF n * Q - S * S = 0 THEN df
      ELSE [i \in 1..Len(df) |->
              [df[i] EXCEPT !.outlier = IF flag(df[i].val) THEN "T" ELSE "F"]]

\* add_outlier_flags for the metric column: |x - mean| / std >= z_thresh with
\* the sample standard deviation, written without division; the z-score of
\* a missing cell is missing and compares False
add_outlier_flags(df, z) ==
  LET n == NotNaCount(df)
      S == SumVal(df)
      Q == SumSq(df)
      flag(x) == x # NaN /\ (n * x - S) * (n * x - S) * (n - 1) >= z * z * n * (n * Q - S * S)
  IN  IF n < MinNonMissing \/ n * Q - S * S = 0 THEN df
      ELSE [i \in 1..Len(df) |->
              [df[i] EXCEPT !.outlier = IF flag(df[i].val) THEN "T" ELSE "F"]]

\* df[["participant_id", "file_name"] + numeric columns]: the boolean flag
\* column and the text column __read_error__ are not numeric columns
KeepCols(df) == [i \in 1..Len(df) |-> [df[i] EXCEPT !.outlier = "none", !.err = "none"]]

\* upsert_group_tsv up to the write: the rows of df_all, as to_csv formats them
MergedRows(df_new, canonical) ==
  LET df_all == IF canonical.exists THEN ReadCsv(canonical.rows) \o df_new ELSE df_new
  IN  ToCsv(SortValues(DropDuplicatesLast(df_all)))

\* upsert_group_tsv: the canonical file after the call
upsert_group_tsv(df_new, canonical) == FileOf(MergedRows(df_new, canonical))

\* write_one: the dated snapshot and the canonical file of one table after
\* the call, and whether the upsert ran
write_one(tree, snapFile, canonical, labels, modality, add_outliers, z_thresh, incremental) ==
  LET skip == (incremental /\ ~labels.some) \/ (labels.some /\ labels.v = <<>>)
      df0 == aggregate_iqms(tree, modality, labels)
      df1 == IF add_outliers THEN add_outlier_flags(df0, z_thresh) ELSE df0
      df == KeepCols(df1)
  IN  IF skip \/ df0 = <<>>
        THEN [snap |-> snapFile, canon |-> canonical, upserted |-> FALSE, wrote |-> FALSE,
              flagged |-> <<>>]
        ELSE [snap |-> FileOf(ToCsv(df)),
              canon |-> IF incremental THEN upsert_group_tsv(df, canonical) ELSE canonical,
              upserted |-> incremental, wrote |-> TRUE, flagged |-> df1]

\* discover_labels_from_derivatives for one cohort
discover_labels_from_derivatives(tree, cohort) ==
  LET dirs == {[dir |-> f.dir, name |-> <<>>] : f \in {g \in DOMAIN tree : tree[g] # 0}}
      hit == {d \in dirs : IF cohort = "baseline" THEN BASELINE_DIR_RE(d.dir)
                                                   ELSE SCAN2_DIR_RE(d.dir)}
      sorted == SortedPaths(hit)
  IN  Some([i \in 1..Len(sorted) |-> Tail(sorted[i].dir)])

\* the labels main hands to write_one for one cohort
MainLabels(tree, raw, cohort) ==
  IF parse_subject_labels(raw).some
    THEN split_baseline_scan2(parse_subject_labels(raw), cohort)
    ELSE discover_labels_from_derivatives(tree, cohort)

(***************************************************************************)
(* The canonical file as concurrent processes see it.  to_csv opens the    *)
(* path for writing, which truncates it, and then writes the header line   *)
(* and the rows through its own file handle; the file holds lines.         *)
(***************************************************************************)
HeaderLine ==
  [pid |-> <<"participant_id">>, file |-> <<"file_name">>, val |-> 0,
   outlier |-> "", err |-> ""]

\* what a gap left by a write behind the end of the file reads as
HoleLine == [pid |-> <<"NUL">>, file |-> <<"NUL">>, val |-> 0, outlier |-> "", err |-> ""]

NoPath == [exists |-> FALSE, lines |-> <<>>]

PathOf(rows) == [exists |-> TRUE, lines |-> <<HeaderLine>> \o rows]

\* open(path, "w")
Truncate(f) == [exists |-> TRUE, lines |-> <<>>]

\* a write of one line through a handle whose offset is pos lines
WriteAt(f, pos, line) ==
  LET len == Len(f.lines)
      padded == IF pos <= len THEN f.lines
                ELSE f.lines \o [i \in 1..(pos - len) |-> HoleLine]
      newLen == IF pos + 1 > Len(padded) THEN pos + 1 ELSE Len(padded)
  IN  [f EXCEPT !.lines = [i \in 1..newLen |-> IF i = pos + 1 THEN line ELSE padded[i]]]

(***************************************************************************)
(* State of the aggregation runs                                           *)
(***************************************************************************)
VARIABLES
  tree,      \* derivatives: version of every IQM JSON, 0 = not computed yet
  snap,      \* table -> today's dated snapshot file
  ledger,    \* table -> canonical file
  runs,      \* number of aggregator runs so far
  qcRuns,    \* number of QC tool invocations so far
  lastRun,   \* what the latest step did
  cfile,     \* one canonical path shared by concurrent processes
  cprior,    \* that path before the concurrent upserts began
  wpc,       \* writer -> position in upsert_group_tsv
  wnew,      \* writer -> df_new
  wall,      \* writer -> the rows of df_all it is writing
  wpos,      \* writer -> lines written through its handle
  observed,  \* what the reader's latest pd.read_csv returned
  qpc,       \* position of bids_qc_report.main
  cand,      \* the subject directory of the acquisition tree
  tsvT1,     \* bids_name column of group_T1w.tsv
  tsvBold,   \* bids_name column of group_bold.tsv
  htmlFiles, \* file names in the report directory
  listing,   \* how listing the report directory ends
  t1_set,    \* as returned by load_mriqc_tsv_subjects
  bold_set,  \* as returned by load_mriqc_tsv_subjects
  html_index, \* as returned by build_mriqc_html_index
  groups,    \* the groups main put cand into
  status,    \* the MRIQC column of cand's row
  bpc,       \* position of one write_one call on a drawn derivatives tree
  btree,     \* that tree: the content of every IQM JSON
  bargs,     \* add_outliers, z_thresh and incremental of the call
  bflagged,  \* the frame of the call before its columns are selected
  bsnap,     \* the dated snapshot the call wrote
  bledger,   \* the canonical file the call wrote
  wkpc,      \* position of weekly_mriqc.main
  wkargs,    \* its command line
  wkt1,      \* group_T1w.tsv
  wkbold,    \* group_bold.tsv
  wkscript,  \* whether run_mriqc_local.sh exists
  wkcsv,     \* cohort -> its scan presence CSV
  targets,   \* the ids find_missing_mriqc_ids returned
  wki,       \* index of the next target of run_mriqc_for_ids
  n_ok,      \* of run_mriqc_for_ids
  n_err,     \* of run_mriqc_for_ids
  wkout,     \* how the QC command of every target handled so far ended
  spin,      \* spinner threads started, and joined, so far
  wkdocs,    \* the ids the derivatives hold IQM JSONs for
  wkdid,     \* what the run has done so far
  wkanswer,  \* what the operator typed at the prompt
  subFiles,  \* the files below cand's directory
  row,       \* cand's row of the scan presence table
  spc,       \* position of the scans of one subject root
  sroot,     \* that root: whether it exists, and the files below it
  sres,      \* what the latest check_subject call on it returned
  sprev,     \* the files and the row of the scan before
  selpc,     \* position of one work selection
  selcsv,    \* the two presence CSV files it reads
  selected   \* what find_missing_mriqc_ids returned

aggVars == <<tree, snap, ledger, runs, qcRuns, lastRun>>

concVars == <<cfile, cprior, wpc, wnew, wall, wpos, observed>>

repVars == <<qpc, cand, tsvT1, tsvBold, htmlFiles, listing, t1_set, bold_set,
             html_index, groups, status, subFiles, row>>

scanVars == <<spc, sroot, sres, sprev>>

selVars == <<selpc, selcsv, selected>>

batVars == <<bpc, btree, bargs, bflagged, bsnap, bledger>>

vars == <<tree, snap, ledger, runs, qcRuns, lastRun,
          cfile, cprior, wpc, wnew, wall, wpos, observed,
          qpc, cand, tsvT1, tsvBold, htmlFiles, listing, t1_set, bold_set,
          html_index, groups, status,
          bpc, btree, bargs, bflagged, bsnap, bledger,
          wkpc, wkargs, wkt1, wkbold, wkscript, wkcsv, targets, wki, n_ok, n_err,
          wkout, spin, wkdocs, wkdid, wkanswer,
          subFiles, row, spc, sroot, sres, sprev,
          selpc, selcsv, selected>>

wkVars == <<wkpc, wkargs, wkt1, wkbold, wkscript, wkcsv, targets, wki, n_ok, n_err,
            wkout, spin, wkdocs, wkdid, wkanswer>>

\* the variables an aggregator run, a concurrent upsert, a QC report, a
\* single write_one call and a weekly run leave alone
notAggVars == <<concVars, repVars, batVars, wkVars, scanVars, selVars>>

notConcVars == <<aggVars, repVars, batVars, wkVars, scanVars, selVars>>

notRepVars == <<aggVars, concVars, batVars, wkVars, scanVars, selVars>>

notBatVars == <<aggVars, concVars, repVars, wkVars, scanVars, selVars>>

notWkVars == <<aggVars, concVars, repVars, batVars, scanVars, selVars>>

notSelVars == <<aggVars, concVars, repVars, batVars, wkVars, scanVars>>

notScanVars == <<aggVars, concVars, repVars, batVars, wkVars, selVars>>

\* no row of the presence table yet
NoRow == [key \in RowKeys |-> IF key = "ID" THEN <<>> ELSE IF key = "MRIQC" THEN "unset" ELSE 0]

NoResult == [raised |-> FALSE, row |-> NoRow]

NoScan == [scanned |-> FALSE, files |-> {}, row |-> NoRow]

NoRun == [kind |-> "none", raw |-> NoneL, raised |-> FALSE, upserted |-> {}, wrote |-> {}]

Writers == {"w1", "w2"}

NotObserved == [kind |-> "none", lines |-> <<>>]

ConcIdle ==
  /\ cfile = NoPath
  /\ cprior = NoPath
  /\ wpc = [w \in Writers |-> "done"]
  /\ wnew = [w \in Writers |-> <<>>]
  /\ wall = [w \in Writers |-> <<>>]
  /\ wpos = [w \in Writers |-> 0]
  /\ observed = NotObserved

RepIdle ==
  /\ qpc = "idle"
  /\ cand = <<>>
  /\ tsvT1 = {}
  /\ tsvBold = {}
  /\ htmlFiles = {}
  /\ listing = ListingOk
  /\ t1_set = {}
  /\ bold_set = {}
  /\ html_index = <<>>
  /\ groups = {}
  /\ status = "unset"
  /\ subFiles = {}
  /\ row = NoRow

SelIdle ==
  /\ selpc = "idle"
  /\ selcsv = [g \in Cohorts |-> NoFile]
  /\ selected = <<>>

ScanIdle ==
  /\ spc = "idle"
  /\ sroot = NoRoot
  /\ sres = NoResult
  /\ sprev = NoScan

\* the subjects of the drawn tree: six baseline subjects, enough for the
\* outlier annotator to act
BatchIds == {<<"1", "0", "0", d>> : d \in {"1", "2", "3", "4", "5", "6"}}

BatchFiles == {T1wJson(d) : d \in BatchIds}

\* --subjects naming all of them
BatchArgs ==
  << <<"1", "0", "0", "1">>, <<"1", "0", "0", "2">>, <<"1", "0", "0", "3">>,
     <<"1", "0", "0", "4">>, <<"1", "0", "0", "5">>, <<"1", "0", "0", "6">> >>

\* what a file of the drawn tree can hold
BatchDocs == {0, Malformed} \cup (1..MaxMetric)

\* the --z-thresh values tried, the default among them
ZThreshArgs == {1, 2, ZThresh}

BatchArgSets ==
  {a \in [add_outliers : BOOLEAN, z_thresh : ZThreshArgs, incremental : BOOLEAN] :
     a.add_outliers \/ a.z_thresh = ZThresh}

BatIdle ==
  /\ bpc = "idle"
  /\ btree = [f \in BatchFiles |-> 0]
  /\ bargs = [add_outliers |-> TRUE, z_thresh |-> ZThresh, incremental |-> FALSE]
  /\ bflagged = <<>>
  /\ bsnap = NoFile
  /\ bledger = NoFile

\* a tabular evidence file: absent, or its bids_name column
NoTsv == [exists |-> FALSE, names |-> {}]

TsvFiles(names) == {NoTsv} \cup {[exists |-> TRUE, names |-> S] : S \in SUBSET names}

NoSpin == [started |-> 0, joined |-> 0]

WkIdle ==
  /\ wkpc = "idle"
  /\ wkargs = [yes |-> FALSE, dry_run |-> FALSE, timeout |-> FALSE, email_only |-> FALSE,
               rerun_group |-> FALSE, skip_bids_val |-> FALSE]
  /\ wkt1 = NoTsv
  /\ wkbold = NoTsv
  /\ wkscript = FALSE
  /\ wkcsv = [g \in Cohorts |-> NoFile]
  /\ targets = <<>>
  /\ wki = 0
  /\ n_ok = 0
  /\ n_err = 0
  /\ wkout = <<>>
  /\ spin = NoSpin
  /\ wkdocs = {}
  /\ wkdid = {}
  /\ wkanswer = "unasked"

AggIdle ==
  /\ tree = [f \in DerivFiles |-> 0]
  /\ snap = [t \in Tables |-> NoFile]
  /\ ledger = [t \in Tables |-> NoFile]
  /\ runs = 0
  /\ qcRuns = 0
  /\ lastRun = NoRun

\* the --subjects arguments tried
SubjectArgs ==
  { <<<<"1", "0", "0", "1">>>>,
    <<<<"1", "0", "0", "2">>>>,
    <<<<"sub-", "0", "1", "2", "3">>>>,
    <<<<"1", "0", "0", "1", "1">>>>,
    <<<<"1", "0", "0", "1">>, <<"sub-", "1", "0", "0", "1", "1">>>>,
    <<<<"1", "0", "0", "1", "2">>>> }

AggInit == AggIdle /\ ConcIdle /\ RepIdle /\ BatIdle /\ WkIdle /\ ScanIdle /\ SelIdle

\* the external QC tool writes (or rewrites) one IQM JSON
QCTool(f) ==
  /\ tree[f] < MaxVersion
  /\ qcRuns < MaxQC
  /\ qcRuns' = qcRuns + 1
  /\ tree' = [tree EXCEPT ![f] = @ + 1]
  /\ lastRun' = [NoRun EXCEPT !.kind = "qc"]
  /\ UNCHANGED <<snap, ledger, runs>>
  /\ UNCHANGED notAggVars

\* main: one run of the aggregator with the given --subjects value
Main(raw, no_outliers) ==
  LET user_labels == parse_subject_labels(raw)
      incremental == user_labels.some
      res == [t \in Tables |->
                write_one(tree, snap[t], ledger[t], MainLabels(tree, raw, t[1]),
                          t[2], ~no_outliers, ZThresh, incremental)]
  IN  /\ runs < MaxRuns
      /\ runs' = runs + 1
      /\ UNCHANGED <<tree, qcRuns>>
      /\ UNCHANGED notAggVars
      /\ IF SplitRaises(user_labels)
           THEN /\ UNCHANGED <<snap, ledger>>
                /\ lastRun' = [NoRun EXCEPT !.kind = "main", !.raw = raw, !.raised = TRUE]
           ELSE /\ snap' = [t \in Tables |-> res[t].snap]
                /\ ledger' = [t \in Tables |-> res[t].canon]
                /\ lastRun' = [kind |-> "main", raw |-> raw, raised |-> FALSE,
                               upserted |-> {t \in Tables : res[t].upserted},
                               wrote |-> {t \in Tables : res[t].wrote}]

MainAll == \E no_outliers \in BOOLEAN : Main(NoneL, no_outliers)

MainSubjects == \E raw \in SubjectArgs, no_outliers \in BOOLEAN : Main(Some(raw), no_outliers)

RunQCTool == \E f \in DerivFiles : QCTool(f)

Next == RunQCTool \/ MainAll \/ MainSubjects

Spec == AggInit /\ [][Next]_vars

(***************************************************************************)
(* Two upsert_group_tsv calls on one canonical path, and a reader of it    *)
(* (_read_tsv_or_empty of group_report.py), step by step                   *)
(***************************************************************************)
DiskKey(r) == <<r.pid, r.file>>

DiskKeys(file) == {DiskKey(file.rows[i]) : i \in 1..Len(file.rows)}

RowsWithKey(file, k) == {i \in 1..Len(file.rows) : DiskKey(file.rows[i]) = k}

BatchRow(d, v) ==
  [pid |-> StrCell(d), file |-> Sub(d) \o <<"_T1w.json">>, val |-> v, outlier |-> "none",
   err |-> "none"]

Batches ==
  { <<BatchRow(<<"1", "0", "0", "1">>, 1)>>,
    <<BatchRow(<<"1", "0", "0", "2">>, 1)>>,
    <<BatchRow(<<"1", "0", "0", "1">>, 2), BatchRow(<<"1", "0", "0", "2">>, 2)>> }

PriorPaths == {NoPath, PathOf(ToCsv(<<BatchRow(<<"1", "0", "0", "3">>, 1)>>))}

ConcInit ==
  /\ ScanIdle
  /\ SelIdle
  /\ WkIdle
  /\ AggIdle
  /\ RepIdle
  /\ BatIdle
  /\ cprior \in PriorPaths
  /\ cfile = cprior
  /\ wnew \in [Writers -> Batches]
  /\ wpc = [w \in Writers |-> "read"]
  /\ wall = [w \in Writers |-> <<>>]
  /\ wpos = [w \in Writers |-> 0]
  /\ observed = NotObserved

\* canonical_path.exists(), pd.read_csv, concat, drop_duplicates, sort_values;
\* reading a path that holds no header line raises
WRead(w) ==
  /\ wpc[w] = "read"
  /\ IF ~cfile.exists
       THEN /\ wall' = [wall EXCEPT ![w] = MergedRows(wnew[w], NoFile)]
            /\ wpc' = [wpc EXCEPT ![w] = "open"]
       ELSE IF cfile.lines = <<>> \/ cfile.lines[1] # HeaderLine
       THEN /\ wpc' = [wpc EXCEPT ![w] = "failed"]
            /\ UNCHANGED wall
       ELSE /\ wall' = [wall EXCEPT ![w] = MergedRows(wnew[w], FileOf(Tail(cfile.lines)))]
            /\ wpc' = [wpc EXCEPT ![w] = "open"]
  /\ UNCHANGED <<cfile, cprior, wnew, wpos, observed>>
  /\ UNCHANGED notConcVars

\* df_all.to_csv(canonical_path): the path is opened for writing
WOpen(w) ==
  /\ wpc[w] = "open"
  /\ cfile' = Truncate(cfile)
  /\ wpos' = [wpos EXCEPT ![w] = 0]
  /\ wpc' = [wpc EXCEPT ![w] = "write"]
  /\ UNCHANGED <<cprior, wnew, wall, observed>>
  /\ UNCHANGED notConcVars

\* df_all.to_csv(canonical_path): the next line reaches the file
WWrite(w) ==
  /\ wpc[w] = "write"
  /\ wpos[w] < 1 + Len(wall[w])
  /\ cfile' = WriteAt(cfile, wpos[w], IF wpos[w] = 0 THEN HeaderLine ELSE wall[w][wpos[w]])
  /\ wpos' = [wpos EXCEPT ![w] = @ + 1]
  /\ UNCHANGED <<cprior, wpc, wnew, wall, observed>>
  /\ UNCHANGED notConcVars

\* df_all.to_csv(canonical_path): the handle is closed, the call returns
WClose(w) ==
  /\ wpc[w] = "write"
  /\ wpos[w] = 1 + Len(wall[w])
  /\ wpc' = [wpc EXCEPT ![w] = "done"]
  /\ UNCHANGED <<cfile, cprior, wnew, wall, wpos, observed>>
  /\ UNCHANGED notConcVars

\* _read_tsv_or_empty on the canonical path
ReaderRead ==
  /\ observed' = IF ~cfile.exists THEN [kind |-> "missing", lines |-> <<>>]
                 ELSE IF cfile.lines = <<>> THEN [kind |-> "error", lines |-> <<>>]
                 ELSE [kind |-> "ok", lines |-> cfile.lines]
  /\ UNCHANGED <<cfile, cprior, wpc, wnew, wall, wpos>>
  /\ UNCHANGED notConcVars

WriterStep == \E w \in Writers : WRead(w) \/ WOpen(w) \/ WWrite(w) \/ WClose(w)

ConcNext == WriterStep \/ ReaderRead

SpecConc == ConcInit /\ [][ConcNext]_vars

(***************************************************************************)
(* Properties of concurrent upserts (checked under SpecConc)               *)
(***************************************************************************)
LineKeys(f) == {DiskKey(f.lines[i]) : i \in 1..Len(f.lines)}

BatchKeys(df) == {<<df[i].pid.s, df[i].file>> : i \in 1..Len(df)}

\* C5: once both upserts have returned, the canonical file holds the keys of
\* both batches (no upsert overwrote the other's contribution)
C5_MutualExclusion ==
  (\A w \in Writers : wpc[w] = "done") =>
     \A w \in Writers : BatchKeys(wnew[w]) \subseteq LineKeys(cfile)

\* the complete ledgers: the prior one and the merged one of every upsert
\* that has begun to write
FullLedgers ==
  {cprior.lines} \cup
  {<<HeaderLine>> \o wall[w] : w \in {v \in Writers : wpc[v] \in {"write", "done"}}}

\* C6: a reader of the canonical path only ever sees a complete ledger:
\* the full prior ledger or a full merged ledger
C6_AtomicWrite ==
  /\ observed.kind # "error"
  /\ observed.kind = "ok" => observed.lines \in FullLedgers

(***************************************************************************)
(* One run of bids_qc_report.main for one subject directory                *)
(***************************************************************************)
MinIdLen == 3

MaxIdLen == 6

CandDigits == {"0", "1", "2"}

\* sub-<digits> for every digit string of the lengths tried
Candidates ==
  UNION {{Sub(d) : d \in [1..n -> CandDigits]} : n \in MinIdLen..MaxIdLen}

Id1001 == <<"1", "0", "0", "1">>

Id10011 == <<"1", "0", "0", "1", "1">>

Id10012 == <<"1", "0", "0", "1", "2">>

EvidenceSubjects == {Sub(Id1001), Sub(Id10011), Sub(Id10012)}

TsvT1Names == {Sub(d) \o <<"_T1w">> : d \in {Id1001, Id10011, Id10012}}

TsvBoldNames == {Sub(d) \o <<"_task-rest_bold">> : d \in {Id1001, Id10011}}

HtmlNames ==
  { Sub(Id1001) \o <<"_T1w.html">>,
    Sub(Id10011) \o <<"_T1w.html">>,
    Sub(Id10011) \o <<"_task-rest_bold.html">>,
    Sub(Id10012) \o <<"_task-rest_bold.html">> }

\* the acquisition trees of a subject that the report is run on
ReportTrees(sub) == {{}, {DwiFile(sub), RestFile(sub)}, {HippoFile(sub), TaFile(sub), MeFile(sub)}}

RepInit ==
  /\ ScanIdle
  /\ SelIdle
  /\ WkIdle
  /\ AggIdle
  /\ ConcIdle
  /\ BatIdle
  /\ qpc = "start"
  /\ \/ /\ cand \in Candidates
        /\ tsvT1 = {}
        /\ tsvBold = {}
        /\ htmlFiles = {}
        /\ listing = ListingOk
        /\ subFiles = {}
     \/ /\ cand \in EvidenceSubjects
        /\ tsvT1 \in SUBSET TsvT1Names
        /\ tsvBold \in SUBSET TsvBoldNames
        /\ htmlFiles \in SUBSET HtmlNames
        /\ listing \in {ListingOk} \cup ListingFailures(htmlFiles)
        /\ subFiles \in ReportTrees(cand)
  /\ t1_set = {}
  /\ bold_set = {}
  /\ html_index = <<>>
  /\ groups = {}
  /\ status = "unset"
  /\ row = NoRow

\* bold_set, t1_set = load_mriqc_tsv_subjects()
LoadTsv ==
  /\ qpc = "start"
  /\ t1_set' = TsvSubjects(tsvT1)
  /\ bold_set' = TsvSubjects(tsvBold)
  /\ qpc' = "loaded"
  /\ UNCHANGED <<cand, tsvT1, tsvBold, htmlFiles, listing, html_index, groups, status, subFiles, row>>
  /\ UNCHANGED notRepVars

\* html_index = build_mriqc_html_index(mriqc_html_dir)
BuildIndex ==
  /\ qpc = "loaded"
  /\ html_index' = build_mriqc_html_index(htmlFiles, listing)
  /\ qpc' = "indexed"
  /\ UNCHANGED <<cand, tsvT1, tsvBold, htmlFiles, listing, t1_set, bold_set, groups, status,
                 subFiles, row>>
  /\ UNCHANGED notRepVars

\* the split of all_subjects into baseline_subjects and scan2_subjects
SplitGroups ==
  /\ qpc = "indexed"
  /\ groups' = SubjectGroups(cand)
  /\ qpc' = "split"
  /\ UNCHANGED <<cand, tsvT1, tsvBold, htmlFiles, listing, t1_set, bold_set, html_index, status,
                 subFiles, row>>
  /\ UNCHANGED notRepVars

\* process_group: a subject of a group gets its row from check_subject
ProcessGroups ==
  LET res == check_subject(RootOf(subFiles), cand, bold_set, t1_set, html_index)
  IN  /\ qpc = "split"
      /\ row' = IF groups # {} THEN res.row ELSE NoRow
      /\ status' = IF groups # {} THEN res.row["MRIQC"] ELSE "unset"
      /\ qpc' = "done"
      /\ UNCHANGED <<cand, tsvT1, tsvBold, htmlFiles, listing, t1_set, bold_set, html_index,
                     groups, subFiles>>
      /\ UNCHANGED notRepVars

RepNext == LoadTsv \/ BuildIndex \/ SplitGroups \/ ProcessGroups

SpecReport == RepInit /\ [][RepNext]_vars

(***************************************************************************)
(* One write_one call (baseline, T1w) on a drawn derivatives tree          *)
(***************************************************************************)
BatchInit ==
  /\ ScanIdle
  /\ SelIdle
  /\ WkIdle
  /\ AggIdle
  /\ ConcIdle
  /\ RepIdle
  /\ bpc = "start"
  /\ btree \in [BatchFiles -> BatchDocs]
  /\ bargs \in BatchArgSets
  /\ bflagged = <<>>
  /\ bsnap = NoFile
  /\ bledger = NoFile

\* main's call of write_one for the baseline T1w table
BatchWriteOne ==
  LET raw == IF bargs.incremental THEN Some(BatchArgs) ELSE NoneL
      res == write_one(btree, bsnap, bledger, MainLabels(btree, raw, "baseline"), "T1w",
                       bargs.add_outliers, bargs.z_thresh, bargs.incremental)
  IN  /\ bpc = "start"
      /\ bpc' = "done"
      /\ bflagged' = res.flagged
      /\ bsnap' = res.snap
      /\ bledger' = res.canon
      /\ UNCHANGED <<btree, bargs>>
      /\ UNCHANGED notBatVars

BatchNext == BatchWriteOne

SpecBatch == BatchInit /\ [][BatchNext]_vars

(***************************************************************************)
(* weekly_mriqc.py : one run of the weekly pipeline over an acquisition    *)
(* tree that holds one baseline and one follow-up subject                  *)
(***************************************************************************)
\* sorted(all_subjects) of bids_qc_report.main, by cohort
WkGroup(g) == IF g = "baseline" THEN <<Sub(Id1001)>> ELSE <<Sub(Id10011)>>

WkT1Names == {Sub(Id1001) \o <<"_T1w">>, Sub(Id10011) \o <<"_T1w">>}

WkBoldNames == {Sub(Id1001) \o <<"_task-rest_bold">>, Sub(Id10011) \o <<"_task-rest_bold">>}

\* load_mriqc_tsv_subjects for one file: a file that does not exist is
\* skipped and leaves its set empty
load_mriqc_tsv_subjects(file) == IF file.exists THEN TsvSubjects(file.names) ELSE {}

\* process_group: the ID and MRIQC columns of the CSV it writes
process_group(subjects, t1file, boldfile) ==
  FileOf([i \in 1..Len(subjects) |->
            [ID |-> subjects[i],
             MRIQC |-> evaluate_mriqc_status(subjects[i], load_mriqc_tsv_subjects(boldfile),
                                             load_mriqc_tsv_subjects(t1file),
                                             IndexOfEntries({}))]])

\* a presence CSV left by an earlier run
StaleCsv(g) == FileOf(<<[ID |-> WkGroup(g)[1], MRIQC |-> "0"]>>)

\* pd.read_csv of the MRIQC column: integers when every cell is a number,
\* text otherwise
ReadStatus(rows) ==
  LET numeric == \A i \in 1..Len(rows) : rows[i].MRIQC \in {"0", "1"}
  IN  [i \in 1..Len(rows) |->
         [ID |-> rows[i].ID,
          MRIQC |-> IF numeric THEN [k |-> "int", n |-> IF rows[i].MRIQC = "1" THEN 1 ELSE 0,
                                     t |-> ""]
                    ELSE [k |-> "str", n |-> 0, t |-> rows[i].MRIQC]]]

\* load_scan_presence once both files are known to exist
load_scan_presence(csv) == ReadStatus(csv["baseline"].rows) \o ReadStatus(csv["scan2"].rows)

\* extract_id_num: re.match(r"sub-(\d+)", sub_id), <<>> for None
extract_id_num(sub_id) ==
  IF sub_id # <<>> /\ sub_id[1] = "sub-" THEN DigitRun(Tail(sub_id)) ELSE <<>>

\* mask_missing = (col == 0): a "0" in a text column is not matched
mask_missing_numeric_only(c) == c.k = "int" /\ c.n = 0

\* (col == 0) | (col == "0") | (col.astype(str).str.strip() == "0")
mask_missing(c) ==
  \/ c.k = "int" /\ c.n = 0
  \/ c.k = "str" /\ c.t = "0"
  \/ (IF c.k = "int" THEN (IF c.n = 0 THEN "0" ELSE "1") ELSE c.t) = "0"

\* find_missing_mriqc_ids
RECURSIVE find_missing_mriqc_ids(_)
find_missing_mriqc_ids(df) ==
  IF df = <<>> THEN <<>>
  ELSE IF mask_missing(df[1].MRIQC) /\ extract_id_num(df[1].ID) # <<>>
    THEN <<extract_id_num(df[1].ID)>> \o find_missing_mriqc_ids(Tail(df))
    ELSE find_missing_mriqc_ids(Tail(df))

\* cont = input(...).strip().lower() for the answers tried
Answers == {"y", "Y", " y ", "n", "yes", ""}

\* cont = input(...)[:1].lower(): only the first character is looked at
StripLower_first_letter(a) ==
  IF a \in {"y", "Y", "yes"} THEN "y" ELSE IF a = "n" THEN "n" ELSE IF a = " y " THEN " " ELSE ""

StripLower(a) ==
  IF a \in {"y", "Y", " y "} THEN "y" ELSE IF a = "yes" THEN "yes" ELSE IF a = "n" THEN "n" ELSE ""

WkArgSets ==
  {a \in [yes : BOOLEAN, dry_run : BOOLEAN, timeout : BOOLEAN, email_only : BOOLEAN,
           rerun_group : BOOLEAN, skip_bids_val : BOOLEAN] :
     a.rerun_group => a.email_only}

WkInit ==
  /\ ScanIdle
  /\ SelIdle
  /\ AggIdle
  /\ ConcIdle
  /\ RepIdle
  /\ BatIdle
  /\ wkpc = "start"
  /\ wkargs \in WkArgSets
  /\ wkt1 \in TsvFiles(WkT1Names)
  /\ wkbold \in TsvFiles(WkBoldNames)
  /\ wkscript \in BOOLEAN
  /\ wkcsv \in [Cohorts -> {"absent", "stale"}]
  /\ targets = <<>>
  /\ wki = 0
  /\ n_ok = 0
  /\ n_err = 0
  /\ wkout = <<>>
  /\ spin = NoSpin
  /\ wkdocs = {}
  /\ wkdid = {}
  /\ wkanswer = "unasked"

\* --email-only: the optional rerun of the aggregator over all subjects
\* (run_command with check=True), the figures and the e-mail
WkEmailOnly(rc) ==
  /\ wkpc = "start" /\ wkargs.email_only
  /\ IF wkargs.rerun_group /\ rc # 0
       THEN /\ wkpc' = "raised"
            /\ wkdid' = wkdid \cup {"aggregate"}
       ELSE /\ wkpc' = "done"
            /\ wkdid' = wkdid \cup (IF wkargs.rerun_group THEN {"aggregate"} ELSE {})
                             \cup {"figures", "report_email"}
  /\ UNCHANGED <<wkargs, wkanswer, wkt1, wkbold, wkscript, wkcsv, targets, wki, n_ok, n_err, wkout,
                 spin, wkdocs>>
  /\ UNCHANGED notWkVars

\* STEP 1 and STEP 2: validate_bids, whose finally clause stops and joins
\* its spinner, and the e-mail of its output
WkValidate ==
  /\ wkpc = "start" /\ ~wkargs.email_only
  /\ wkpc' = "gate"
  /\ IF wkargs.skip_bids_val
       THEN UNCHANGED <<spin, wkdid>>
       ELSE /\ spin' = [started |-> spin.started + 1, joined |-> spin.joined + 1]
            /\ wkdid' = wkdid \cup {"validate", "validator_email"}
  /\ UNCHANGED <<wkargs, wkanswer, wkt1, wkbold, wkscript, wkcsv, targets, wki, n_ok, n_err, wkout,
                 wkdocs>>
  /\ UNCHANGED notWkVars

\* the prompt "Continue to MRIQC? (y/n)", not shown with --yes
WkGate(answer) ==
  /\ wkpc = "gate"
  /\ wkpc' = IF ~wkargs.yes /\ StripLower(answer) # "y" THEN "returned" ELSE "report"
  /\ wkanswer' = IF wkargs.yes THEN wkanswer ELSE answer
  /\ UNCHANGED <<wkargs, wkt1, wkbold, wkscript, wkcsv, targets, wki, n_ok, n_err, wkout,
                 spin, wkdocs, wkdid>>
  /\ UNCHANGED notWkVars

\* STEP 3: bids_qc_report.py as a subprocess whose exit code is not looked
\* at, load_scan_presence and find_missing_mriqc_ids
WkReport(rc) ==
  LET csv == [g \in Cohorts |->
                IF rc = 0 THEN process_group(WkGroup(g), wkt1, wkbold)
                ELSE IF wkcsv[g] = "stale" THEN StaleCsv(g) ELSE NoFile]
      found == find_missing_mriqc_ids(load_scan_presence(csv))
  IN  /\ wkpc = "report"
      /\ wkcsv' = [g \in Cohorts |-> IF rc = 0 THEN "written" ELSE wkcsv[g]]
      /\ wkdid' = wkdid \cup {"report"}
      /\ IF \E g \in Cohorts : ~csv[g].exists
           THEN wkpc' = "raised" /\ UNCHANGED targets
           ELSE /\ targets' = found
                /\ wkpc' = IF found = <<>> THEN "returned" ELSE "qc_start"
      /\ UNCHANGED <<wkargs, wkanswer, wkt1, wkbold, wkscript, wki, n_ok, n_err, wkout, spin, wkdocs>>
      /\ UNCHANGED notWkVars

\* run_mriqc_for_ids up to its loop
WkQCStart ==
  /\ wkpc = "qc_start"
  /\ wkpc' = IF wkscript THEN "qc" ELSE "raised"
  /\ wki' = 1
  /\ UNCHANGED <<wkargs, wkanswer, wkt1, wkbold, wkscript, wkcsv, targets, n_ok, n_err, wkout, spin,
                 wkdocs, wkdid>>
  /\ UNCHANGED notWkVars

\* how subprocess.run can end: with an exit code, or, when a timeout is
\* given, with TimeoutExpired
QCOutcomes(timeout) == {"zero", "nonzero"} \cup (IF timeout THEN {"TimeoutExpired"} ELSE {})

\* one iteration of the loop of run_mriqc_for_ids
WkQCIter(outcome) ==
  /\ wkpc = "qc" /\ wki <= Len(targets)
  /\ outcome \in QCOutcomes(wkargs.timeout)
  /\ IF wkargs.dry_run
       THEN /\ spin' = [spin EXCEPT !.started = @ + 1]
            /\ wki' = wki + 1
            /\ UNCHANGED <<wkpc, n_ok, n_err, wkout, wkdocs, wkdid>>
       ELSE IF outcome = "TimeoutExpired"
       THEN /\ spin' = [spin EXCEPT !.started = @ + 1]
            /\ wkpc' = "raised"
            /\ wkout' = Append(wkout, outcome)
            /\ wkdid' = wkdid \cup {"qc"}
            /\ UNCHANGED <<wki, n_ok, n_err, wkdocs>>
       ELSE /\ spin' = [started |-> spin.started + 1, joined |-> spin.joined + 1]
            /\ wki' = wki + 1
            /\ n_ok' = IF outcome = "zero" THEN n_ok + 1 ELSE n_ok
            /\ n_err' = IF outcome = "zero" THEN n_err ELSE n_err + 1
            /\ wkout' = Append(wkout, outcome)
            /\ wkdocs' = IF outcome = "zero" THEN wkdocs \cup {targets[wki]} ELSE wkdocs
            /\ wkdid' = wkdid \cup {"qc"}
            /\ UNCHANGED wkpc
  /\ UNCHANGED <<wkargs, wkanswer, wkt1, wkbold, wkscript, wkcsv, targets>>
  /\ UNCHANGED notWkVars

\* run_mriqc_for_ids returns its summary
WkQCReturn ==
  /\ wkpc = "qc" /\ wki > Len(targets)
  /\ wkpc' = "aggregate"
  /\ UNCHANGED <<wkargs, wkanswer, wkt1, wkbold, wkscript, wkcsv, targets, wki, n_ok, n_err, wkout,
                 spin, wkdocs, wkdid>>
  /\ UNCHANGED notWkVars

\* STEP 4: run_group_mriqc with --subjects targets (run_command with
\* check=True); the aggregator upserts the ledgers of the targets it finds
\* IQM JSONs for
WkAggregate(rc) ==
  LET merged == {targets[i] : i \in 1..Len(targets)} \cap wkdocs
  IN  /\ wkpc = "aggregate"
      /\ IF rc # 0
           THEN /\ wkpc' = "raised"
                /\ wkdid' = wkdid \cup {"aggregate"}
           ELSE /\ wkpc' = "email"
                /\ wkdid' = wkdid \cup {"aggregate"}
                                 \cup (IF merged # {} THEN {"snapshot", "ledger"} ELSE {})
      /\ UNCHANGED <<wkargs, wkanswer, wkt1, wkbold, wkscript, wkcsv, targets, wki, n_ok, n_err,
                     wkout, spin, wkdocs>>
      /\ UNCHANGED notWkVars

\* make_weekly_figures and STEP 5
WkEmail ==
  /\ wkpc = "email"
  /\ wkpc' = "done"
  /\ wkdid' = wkdid \cup {"figures", "report_email"}
  /\ UNCHANGED <<wkargs, wkanswer, wkt1, wkbold, wkscript, wkcsv, targets, wki, n_ok, n_err, wkout,
                 spin, wkdocs>>
  /\ UNCHANGED notWkVars

ExitCodes == {0, 1}

WkRunEmailOnly == \E rc \in ExitCodes : WkEmailOnly(rc)

WkAskGate == \E answer \in Answers : WkGate(answer)

WkRunReport == \E rc \in ExitCodes : WkReport(rc)

WkRunQC == \E outcome \in {"zero", "nonzero", "TimeoutExpired"} : WkQCIter(outcome)

WkRunAggregate == \E rc \in ExitCodes : WkAggregate(rc)

WkNext ==
  \/ WkRunEmailOnly
  \/ WkValidate
  \/ WkAskGate
  \/ WkRunReport
  \/ WkQCStart
  \/ WkRunQC
  \/ WkQCReturn
  \/ WkRunAggregate
  \/ WkEmail

SpecWeekly == WkInit /\ [][WkNext]_vars

(***************************************************************************)
(* check_subject on one subject root, scan after scan, while the           *)
(* acquisition adds files below the root                                   *)
(***************************************************************************)
ScanInit ==
  /\ AggIdle
  /\ ConcIdle
  /\ RepIdle
  /\ BatIdle
  /\ WkIdle
  /\ SelIdle
  /\ spc = "stale"
  /\ sroot \in {NoRoot, RootOf({})}
  /\ sres = NoResult
  /\ sprev = NoScan

\* a new file is saved below the root
Acquire(f) ==
  /\ spc = "scanned"
  /\ sroot.exists /\ f \notin sroot.files /\ Cardinality(sroot.files) < MaxFiles
  /\ sroot' = RootOf(sroot.files \cup {f})
  /\ spc' = "stale"
  /\ sprev' = [scanned |-> TRUE, files |-> sroot.files, row |-> sres.row]
  /\ UNCHANGED sres
  /\ UNCHANGED notScanVars

\* row = check_subject(sub_path, sub_id, bold_set, t1_set, html_index)
ScanSubject ==
  /\ spc = "stale"
  /\ sres' = check_subject(sroot, Sub(Id1001), {}, {}, IndexOfEntries({}))
  /\ spc' = "scanned"
  /\ UNCHANGED <<sroot, sprev>>
  /\ UNCHANGED notScanVars

AcquireFile == \E f \in ScanFiles(Sub(Id1001)) : Acquire(f)

ScanNext == AcquireFile \/ ScanSubject

SpecScan == ScanInit /\ [][ScanNext]_vars

(***************************************************************************)
(* load_scan_presence and find_missing_mriqc_ids on the two presence CSV   *)
(* files that process_group wrote                                          *)
(***************************************************************************)
\* the values of the MRIQC column that evaluate_mriqc_status produces
StatusCells == {"1", "0", "no_bold", "no_t1"}

\* the subjects of the two presence tables
SelGroup(g) ==
  [i \in 1..MaxRows |->
     Sub(<<"1", "0", "0", <<"1", "2", "3", "4">>[i]>> \o (IF g = "baseline" THEN <<>> ELSE <<"1">>))]

\* the presence CSV of a cohort with the given status cells
PresenceCsv(g, cells) ==
  FileOf([i \in 1..Len(SelGroup(g)) |-> [ID |-> SelGroup(g)[i], MRIQC |-> cells[i]]])

SelInit ==
  /\ AggIdle
  /\ ConcIdle
  /\ RepIdle
  /\ BatIdle
  /\ WkIdle
  /\ ScanIdle
  /\ selpc = "start"
  /\ \E cb, cs \in [1..MaxRows -> StatusCells] :
       selcsv = [g \in Cohorts |-> PresenceCsv(g, IF g = "baseline" THEN cb ELSE cs)]
  /\ selected = <<>>

\* targets = find_missing_mriqc_ids(load_scan_presence([baseline, scan2]))
SelectTargets ==
  /\ selpc = "start"
  /\ selected' = find_missing_mriqc_ids(load_scan_presence(selcsv))
  /\ selpc' = "done"
  /\ UNCHANGED selcsv
  /\ UNCHANGED notSelVars

SelNext == SelectTargets

SpecSelect == SelInit /\ [][SelNext]_vars

(***************************************************************************)
(* Properties of the ledger (checked under Spec)                           *)
(***************************************************************************)
\* C1: after any sequence of upserts every canonical ledger holds at most
\* one row per key (participant_id, file_name)
C1_LedgerUniqueness ==
  \A t \in Tables : \A k \in DiskKeys(ledger[t]) : Cardinality(RowsWithKey(ledger[t], k)) = 1

\* the upsert of table t in this step merged a batch holding exactly the
\* one key k, which the ledger already held
SupersedingStep(t, k) ==
  /\ lastRun'.kind = "main" /\ t \in lastRun'.upserted
  /\ ledger[t].exists /\ k \in DiskKeys(ledger[t])
  /\ DiskKeys(snap'[t]) = {k}

\* C2: when the ledger holds key K and the batch holds only K with a new
\* value, the merged ledger has exactly one row for K, carrying the new
\* value, and every other row is still there unchanged
C2_Supersession ==
  [][\A t \in Tables : \A k \in DiskKeys(ledger[t]) :
       SupersedingStep(t, k) =>
         /\ Cardinality(RowsWithKey(ledger'[t], k)) = 1
         /\ \A i \in RowsWithKey(ledger'[t], k) : ledger'[t].rows[i].val = snap'[t].rows[1].val
         /\ \A i \in 1..Len(ledger[t].rows) :
              DiskKey(ledger[t].rows[i]) # k =>
                \E j \in 1..Len(ledger'[t].rows) : ledger'[t].rows[j] = ledger[t].rows[i]]_vars

\* C3: a run that repeats the previous run's batch (same --subjects, same
\* derivatives) leaves every ledger as the previous run left it
C3_Idempotence ==
  [][(/\ lastRun.kind = "main" /\ ~lastRun.raised
      /\ lastRun'.kind = "main" /\ lastRun'.raw = lastRun.raw)
       => ledger' = ledger]_vars

\* C4: no step removes a key from a canonical ledger
C4_KeyPreservation ==
  [][\A t \in Tables : DiskKeys(ledger[t]) \subseteq DiskKeys(ledger'[t])]_vars

\* an id of the follow-up cohort: four digits and one more digit
FollowUpId(pid) == Len(pid) = 5 /\ AllDigits(pid)

CohortShaped(cohort, pid) ==
  IF cohort = "baseline" THEN FullMatchBaseline(pid) ELSE FollowUpId(pid)

\* C7: every row of a baseline snapshot or ledger has a 4-digit
\* participant id, every row of a scan2 snapshot or ledger a follow-up id
C7_CohortIsolation ==
  \A t \in Tables :
    /\ \A i \in 1..Len(snap[t].rows) : CohortShaped(t[1], snap[t].rows[i].pid)
    /\ \A i \in 1..Len(ledger[t].rows) : CohortShaped(t[1], ledger[t].rows[i].pid)

\* C20: the subject classifier never raises: a run of main given a label
\* that matches neither cohort pattern rejects the label and does not end
\* in an exception
C20_ClassifierNeverRaises == lastRun.kind = "main" => ~lastRun.raised

\* C21: a run of main writes the group table <cohort>_<modality>.tsv of
\* every table it has rows for, without --subjects as well as with it, and
\* a run with --subjects has added its rows to that table
C21_GroupTablesWritten ==
  (lastRun.kind = "main" /\ ~lastRun.raised) =>
    \A t \in lastRun.wrote : t \in lastRun.upserted /\ ledger[t].exists

(***************************************************************************)
(* Properties of the QC report (checked under SpecReport)                  *)
(***************************************************************************)

\* sub- and a 4-digit id with exactly one more digit
FollowUpName(name) == Len(name) = 6 /\ name[1] = "sub-" /\ AllDigits(Tail(name))

\* sub- and a 4-digit id followed by the digit 1
Scan2Name(name) == FollowUpName(name) /\ name[6] = "1"

Classified == qpc \in {"split", "done"}

\* C8 as stated: every 4-digit id with one more digit of any value is
\* classified SCAN2
C8_AnyTrailingDigit ==
  (Classified /\ FollowUpName(cand)) =>
     groups = {"scan2"} /\ ClassifyLabel(Tail(cand)) = "SCAN2"

\* C8 as amended: a 4-digit id followed by 1 is SCAN2 and nothing else; a
\* 4-digit id followed by any other digit is rejected; neither is BASELINE
C8_Classifier ==
  Classified =>
    /\ Scan2Name(cand) => groups = {"scan2"} /\ ClassifyLabel(Tail(cand)) = "SCAN2"
    /\ FollowUpName(cand) /\ ~Scan2Name(cand) =>
         groups = {} /\ ClassifyLabel(Tail(cand)) = "REJECTED"

C8_Witness == qpc = "done" /\ Scan2Name(cand) /\ groups = {"scan2"}

\* a name that starts with sub-, four digits and one more digit
FollowUpEvidence(n) == Len(n) >= 6 /\ n[1] = "sub-" /\ AllDigits(SubSeq(n, 2, 6))

\* a name that starts with sub-, four digits and the digit 1
Scan2Evidence(n) == FollowUpEvidence(n) /\ n[6] = "1"

\* the names of a source that make the 5-token id b a subject of their own
OwnEvidence(names, b, IsFollowUp(_)) ==
  {m \in names : Len(m) >= 5 /\ SubSeq(m, 1, 5) = b /\ ~IsFollowUp(m)}

\* every follow-up name of the source is attributed to its follow-up id, and
\* the stripped id is a subject only through names of its own
Attributed(names, subjects, IsFollowUp(_)) ==
  \A n \in names :
    IsFollowUp(n) =>
      /\ SubSeq(n, 1, 6) \in subjects
      /\ SubSeq(n, 1, 5) \in subjects => OwnEvidence(names, SubSeq(n, 1, 5), IsFollowUp) # {}

\* the flags of the index entry an artifact is attributed to
FlagsKept(names, index, IsFollowUp(_)) ==
  \A n \in names :
    (IsFollowUp(n) /\ SubSeq(n, 1, 6) \in DOMAIN index) =>
      /\ HasT1wHtml(n) => index[SubSeq(n, 1, 6)][1]
      /\ HasBoldHtml(n) => index[SubSeq(n, 1, 6)][2]

ExtractionKeeps(IsFollowUp(_)) ==
  /\ qpc \in {"loaded", "indexed", "split", "done"} =>
       /\ Attributed(tsvT1, t1_set, IsFollowUp)
       /\ Attributed(tsvBold, bold_set, IsFollowUp)
  /\ (qpc \in {"indexed", "split", "done"} /\ listing.outcome = "ok") =>
       /\ Attributed(htmlFiles, DOMAIN html_index, IsFollowUp)
       /\ FlagsKept(htmlFiles, html_index, IsFollowUp)

\* C9 as stated: evidence named after any 4-digit id with one more digit is
\* attributed to that 5-digit id, never to the 4-digit id
C9_AnyTrailingDigit == ExtractionKeeps(FollowUpEvidence)

\* C9 as amended: evidence named after a 4-digit id followed by 1 is
\* attributed to that follow-up id, never to the 4-digit id
C9_ExtractionKeepsSuffix == ExtractionKeeps(Scan2Evidence)

C9_Witness ==
  /\ qpc = "done"
  /\ \E n \in tsvT1 :
       Scan2Evidence(n) /\ SubSeq(n, 1, 6) \in t1_set /\ SubSeq(n, 1, 5) \notin t1_set
  /\ \E n \in htmlFiles :
       Scan2Evidence(n) /\ SubSeq(n, 1, 6) \in DOMAIN html_index
         /\ SubSeq(n, 1, 5) \notin DOMAIN html_index

TabT1 == cand \in t1_set

TabBold == cand \in bold_set

ArtT1 == IndexGet(html_index, cand)[1]

ArtBold == IndexGet(html_index, cand)[2]

\* C10: the status is BOTH_PRESENT ("1") iff T1 and BOLD evidence each exist
\* in at least one source, "no_bold" iff only T1, "no_t1" iff only BOLD,
\* "0" iff none; tabular BOLD with artifact T1 alone gives "1"
C10_StatusIsCrossSourceOr ==
  (qpc = "done" /\ groups # {}) =>
    /\ status = "1" <=> ((TabT1 \/ ArtT1) /\ (TabBold \/ ArtBold))
    /\ status = "no_bold" <=> ((TabT1 \/ ArtT1) /\ ~(TabBold \/ ArtBold))
    /\ status = "no_t1" <=> (~(TabT1 \/ ArtT1) /\ (TabBold \/ ArtBold))
    /\ status = "0" <=> (~(TabT1 \/ ArtT1) /\ ~(TabBold \/ ArtBold))
    /\ (~TabT1 /\ TabBold /\ ArtT1 /\ ~ArtBold) => status = "1"

C10_Witness ==
  qpc = "done" /\ ~TabT1 /\ TabBold /\ ArtT1 /\ ~ArtBold /\ status = "1"

\* the status the tabular evidence alone gives
TabularStatus ==
  IF TabT1 /\ TabBold THEN "1"
  ELSE IF TabT1 THEN "no_bold"
  ELSE IF TabBold THEN "no_t1"
  ELSE "0"

\* the artifacts of the report directory that belong to the subject
OwnArtifacts == {n \in htmlFiles : HtmlSubId(n) = cand}

\* C11: when listing the report directory fails (directory unreachable,
\* timeout, or an error part-way), the run goes on with an empty index and
\* ends with the subject's status computed from the tabular evidence alone
C11_ListingFailureDegrades ==
  listing.outcome # "ok" =>
    /\ qpc \in {"start", "loaded", "indexed", "split", "done"}
    /\ qpc \in {"indexed", "split", "done"} => html_index = IndexOfEntries({})
    /\ (qpc = "done" /\ groups # {}) => status = TabularStatus

C11_Witness ==
  /\ qpc = "done" /\ groups # {}
  /\ listing.outcome = "OSError" /\ listing.seen \cap OwnArtifacts # {}
  /\ \E n \in listing.seen \cap OwnArtifacts : HasBoldHtml(n)
  /\ TabT1 /\ ~TabBold /\ status = "no_bold"

\* the evidence names of subject sub-10011, and those of sub-1001
EvidenceOf10011 ==
  {Sub(Id10011) \o <<"_T1w">>, Sub(Id10011) \o <<"_task-rest_bold">>,
   Sub(Id10011) \o <<"_T1w.html">>, Sub(Id10011) \o <<"_task-rest_bold.html">>}

T1TabularOf1001 == Sub(Id1001) \o <<"_T1w">>

\* C17: sub-1001 has only a diffusion file and a resting-state file and
\* appears only in the T1 tabular evidence; whatever the evidence for
\* sub-10011 is, its row is dwi=1, resting_state=1, every other category 0,
\* and status T1_ONLY ("no_bold")
C17_RowOf1001 ==
  ( /\ qpc = "done" /\ groups # {}
    /\ cand = Sub(Id1001)
    /\ subFiles = {DwiFile(cand), RestFile(cand)}
    /\ (tsvT1 \cup tsvBold \cup htmlFiles) \ EvidenceOf10011 = {T1TabularOf1001} )
  => row = [key \in RowKeys |->
              IF key \in {"dwi", "resting_state"} THEN 1
              ELSE IF key = "ID" THEN Sub(Id1001)
              ELSE IF key = "MRIQC" THEN "no_bold" ELSE 0]

C17_Witness ==
  /\ qpc = "done" /\ groups # {}
  /\ cand = Sub(Id1001)
  /\ subFiles = {DwiFile(cand), RestFile(cand)}
  /\ (tsvT1 \cup tsvBold \cup htmlFiles) \ EvidenceOf10011 = {T1TabularOf1001}
  /\ Sub(Id10011) \o <<"_task-rest_bold.html">> \in htmlFiles
  /\ Sub(Id10011) \o <<"_task-rest_bold">> \in tsvBold
  /\ listing.outcome = "ok"
  /\ row["dwi"] = 1 /\ row["hippocampus"] = 0 /\ row["MRIQC"] = "no_bold"

(***************************************************************************)
(* Properties of one write_one call (checked under SpecBatch)              *)
(***************************************************************************)
\* the rows of a written file that stem from the IQM JSON f
RowsOfFile(file, f) == {i \in 1..Len(file.rows) : file.rows[i].file = f.name}

\* every row of the file that stems from f carries the read-error marker,
\* and there is such a row
MarkerWritten(file, f) ==
  /\ RowsOfFile(file, f) # {}
  /\ \A i \in RowsOfFile(file, f) : file.rows[i].err # ""

\* C12: a malformed QC result document does not abort the batch, and its
\* row in the snapshot, and in the ledger of an incremental run, carries the
\* read-error marker
C12_ReadErrorVisible ==
  bpc = "done" =>
    \A f \in BatchFiles :
      btree[f] = Malformed =>
        /\ MarkerWritten(bsnap, f)
        /\ bargs.incremental => MarkerWritten(bledger, f)

\* the rows of the annotated frame whose metric is not missing
NonMissing == {i \in 1..Len(bflagged) : bflagged[i].val # NaN}

Measured == {f \in BatchFiles : btree[f] \notin {0, Malformed}}

\* every row of the file that stems from f has a boolean flag cell, and
\* there is such a row
FlagWritten(file, f) ==
  /\ RowsOfFile(file, f) # {}
  /\ \A i \in RowsOfFile(file, f) : file.rows[i].outlier \in {"True", "False"}

\* C19: with outlier annotation enabled and a metric that has at least 5
\* non-missing values and non-zero variance, every batch row written to the
\* snapshot, and merged into the ledger, has its boolean flag cell
C19_FlagColumnWritten ==
  ( /\ bpc = "done" /\ bargs.add_outliers
    /\ Cardinality(Measured) >= 5
    /\ \E f, g \in Measured : btree[f] # btree[g] )
  => \A f \in BatchFiles :
       btree[f] # 0 =>
         /\ FlagWritten(bsnap, f)
         /\ bargs.incremental => FlagWritten(bledger, f)

(***************************************************************************)
(* Properties of the weekly run (checked under SpecWeekly)                 *)
(***************************************************************************)
\* the QC commands that have not ended with exit code 0 so far
FailedRuns == {i \in 1..Len(wkout) : wkout[i] # "zero"}

\* C13: a target whose QC command exceeds the timeout is counted in n_err
\* and does not abort the batch: the loop goes on with the next target
C13_TimeoutIsCounted ==
  /\ n_err = Cardinality(FailedRuns)
  /\ (\E i \in 1..Len(wkout) : wkout[i] = "TimeoutExpired") => wkpc # "raised"

\* an input table or the QC script is missing
ConfigError ==
  \/ ~wkt1.exists
  \/ ~wkbold.exists
  \/ ~wkscript
  \/ \E g \in Cohorts : wkcsv[g] = "absent" /\ "report" \in wkdid

\* C15: when a tabular evidence file, a presence CSV or the QC script is
\* absent, the run creates or modifies no canonical ledger
C15_ConfigErrorIsFatal ==
  (~wkargs.email_only /\ ConfigError) => "ledger" \notin wkdid

(***************************************************************************)
(* Properties of the presence scanner (checked under SpecScan)             *)
(***************************************************************************)
\* C14: a scan of a subject root that does not exist is signalled as an
\* error; it never returns an all-zero presence row
C14_MissingRootIsError ==
  (spc = "scanned" /\ ~sroot.exists) =>
    /\ sres.raised
    /\ ~(\A key \in PatternKeys : sres.row[key] = 0)

\* the categories whose pattern the name of f matches
Matching(f) == {key \in PatternKeys : patterns(key, f.name)}

\* the file added since the scan before
Added == sroot.files \ sprev.files

\* C16: with no matching file below the root every category is 0, and a
\* file matching exactly one category's pattern, added since the scan
\* before, sets that category to 1 and leaves every other one as it was
C16_PresenceVector ==
  spc = "scanned" =>
    /\ (\A f \in sroot.files : Matching(f) = {}) => \A key \in PatternKeys : sres.row[key] = 0
    /\ \A f \in Added :
         (sprev.scanned /\ Added = {f} /\ Cardinality(Matching(f)) = 1) =>
           \A key \in PatternKeys :
             sres.row[key] = IF key \in Matching(f) THEN 1 ELSE sprev.row[key]

C16_Witness ==
  /\ spc = "scanned" /\ sprev.scanned
  /\ Added = {RestFile(Sub(Id1001))}
  /\ sprev.files = {DwiFile(Sub(Id1001))}
  /\ sres.row["resting_state"] = 1 /\ sres.row["dwi"] = 1 /\ sres.row["think_aloud"] = 0

\* none of QC computation, group aggregation and group-report e-mail has
\* been started
NoneOfTheThreeSteps ==
  /\ wki = 0 /\ wkout = <<>>
  /\ wkpc \notin {"qc_start", "qc", "aggregate", "email", "done"}
  /\ wkdid \cap {"qc", "aggregate", "snapshot", "ledger", "figures", "report_email"} = {}

Prompted == ~wkargs.email_only /\ ~wkargs.yes /\ wkanswer # "unasked"

ZeroTargets == ~wkargs.email_only /\ "report" \in wkdid /\ targets = <<>>

\* C23 as stated: an answer that is anything other than y ends the run
\* with none of the three steps, and so does a run with zero targets
C23_AnyOtherAnswer ==
  /\ (Prompted /\ wkanswer # "y") => NoneOfTheThreeSteps
  /\ ZeroTargets => NoneOfTheThreeSteps

\* C23: an answer that, with surrounding blanks removed and in lower case,
\* is anything other than y ends the run with none of the three steps, and
\* so does a run with zero targets
C23_OperatorGate ==
  /\ (Prompted /\ wkanswer \notin {"y", "Y", " y "}) => NoneOfTheThreeSteps
  /\ ZeroTargets => NoneOfTheThreeSteps

C23_Witness ==
  /\ Prompted /\ wkanswer = "yes"
  /\ "validator_email" \in wkdid
  /\ wkpc = "returned"
  /\ "report" \notin wkdid

\* C24: once validate_bids or run_mriqc_for_ids has returned or raised,
\* every spinner thread that was started has been stopped and joined
C24_SpinnersJoined ==
  wkpc \in {"gate", "report", "returned", "aggregate", "email", "done", "raised"} =>
    spin.joined = spin.started

(***************************************************************************)
(* Properties of the work selection (checked under SpecSelect)             *)
(***************************************************************************)
\* the rows of the two presence tables, and those whose status is "0"
PresenceRows == {<<g, i>> : g \in Cohorts, i \in 1..MaxRows}

StatusOf(r) == selcsv[r[1]].rows[r[2]].MRIQC

NumericIdOf(r) == Tail(selcsv[r[1]].rows[r[2]].ID)

\* C22: find_missing_mriqc_ids returns exactly the numeric IDs of the rows
\* of the presence tables whose MRIQC status is "0"; a subject with status
\* "1", "no_bold" or "no_t1" is never selected
C22_WorkSelection ==
  selpc = "done" =>
    /\ \A r \in PresenceRows :
         StatusOf(r) = "0" <=> \E k \in 1..Len(selected) : selected[k] = NumericIdOf(r)
    /\ Len(selected) = Cardinality({r \in PresenceRows : StatusOf(r) = "0"})

C22_Witness ==
  /\ selpc = "done"
  /\ selcsv["baseline"].rows[1].MRIQC = "0" /\ selcsv["baseline"].rows[2].MRIQC = "no_bold"
  /\ selcsv["scan2"].rows[1].MRIQC = "1" /\ selcsv["scan2"].rows[2].MRIQC = "0"
  /\ selected = <<Id1001, <<"1", "0", "0", "2", "1">>>>

=============================================================================
